---- MODULE Spec2Model ----
(***************************************************************************)
(* fitbit-uploader: Fitbit metric fetchers, the aggregate fetch, the sheet *)
(* writer, the OAuth callback flow, the CLI commands and the HTTP trigger. *)
(***************************************************************************)
EXTENDS Integers, Sequences, FiniteSets, TLC

(***************************************************************************)
(* Python values.  A dict is a function from key strings to values; every  *)
(* other value carries its type as the name of its one field, so values of *)
(* different types are different and a type test is a test on the domain.  *)
(***************************************************************************)
Num(n) == [num |-> n]
\* a float, in thousandths
Flt(n) == [flt |-> n]
Str(s) == [str |-> s]
Bool(b) == [bool |-> b]
List(s) == [list |-> s]
None == [none |-> TRUE]
EmptyDict == [k \in {} |-> None]

IsNum(v) == DOMAIN v = {"num"}
IsFlt(v) == DOMAIN v = {"flt"}
IsStr(v) == DOMAIN v = {"str"}
IsBool(v) == DOMAIN v = {"bool"}
IsList(v) == DOMAIN v = {"list"}
IsNone(v) == DOMAIN v = {"none"}
IsDict(v) == ~(IsNum(v) \/ IsFlt(v) \/ IsStr(v) \/ IsBool(v) \/ IsList(v) \/ IsNone(v))

\* Python truth value of v
Truthy(v) ==
    IF IsNum(v) THEN v.num # 0
    ELSE IF IsFlt(v) THEN v.flt # 0
    ELSE IF IsStr(v) THEN v.str # ""
    ELSE IF IsBool(v) THEN v.bool
    ELSE IF IsList(v) THEN Len(v.list) > 0
    ELSE IF IsNone(v) THEN FALSE
    ELSE DOMAIN v # {}

\* dict.get(k, default)
Get(d, k, default) == IF k \in DOMAIN d THEN d[k] ELSE default

\* dict.update(d)
Update(row, d) ==
    [k \in DOMAIN row \cup DOMAIN d |-> IF k \in DOMAIN d THEN d[k] ELSE row[k]]

\* the value of a number in thousandths (0 == 0.0 in Python)
Milli(v) == IF IsNum(v) THEN 1000 * v.num ELSE v.flt

\* a call's outcome: a returned value or a raised exception
Return(v) == [ok |-> TRUE, val |-> v]
Raise(e) == [ok |-> FALSE, exc |-> e]

(***************************************************************************)
(* Rounding.  Python rounds the binary float, so a decimal tie goes        *)
(* wherever the float nearest to the quotient lies.                        *)
(***************************************************************************)
\* the n whose float n / 3_600_000 lies above the two-decimal tie
HourTiesAbove == {18000, 90000, 126000}
\* the n whose float n / 60000 lies above the one-decimal tie
MinuteTiesAbove == {3000, 27000, 33000}

\* round(n / (unit * 10^nd), nd) as a count of 10^-nd steps
RoundQuot(n, unit, tiesAbove) ==
    LET q == n \div unit
        r == n % unit
    IN  IF 2 * r < unit THEN q
        ELSE IF 2 * r > unit THEN q + 1
        ELSE IF n \in tiesAbove THEN q + 1 ELSE q

\* round(v, nd) for nd in {1, 2}: an int is returned unchanged
Round(v, nd) ==
    IF IsNum(v) THEN v
    ELSE LET unit == IF nd = 2 THEN 10 ELSE 100
         IN  Flt(unit * RoundQuot(v.flt, unit, {}))

(***************************************************************************)
(* Text conversions.                                                       *)
(***************************************************************************)
Pad2(n) == IF n < 10 THEN "0" \o ToString(n) ELSE ToString(n)
Pad4(n) ==
    IF n < 10 THEN "000" \o ToString(n)
    ELSE IF n < 100 THEN "00" \o ToString(n)
    ELSE IF n < 1000 THEN "0" \o ToString(n) ELSE ToString(n)

\* str(d) of a date
DateStr(d) == Pad4(d.year) \o "-" \o Pad2(d.month) \o "-" \o Pad2(d.day)

\* repr of a non-negative float given in thousandths
FloatStr(n) ==
    LET w == n \div 1000
        f == n % 1000
    IN  ToString(w) \o "." \o
        (IF f % 100 = 0 THEN ToString(f \div 100)
         ELSE IF f % 10 = 0 THEN Pad2(f \div 10)
         ELSE (IF f < 100 THEN "0" ELSE "") \o Pad2(f))

\* format(v) in an f-string
Format(v) ==
    IF IsNum(v) THEN ToString(v.num)
    ELSE IF IsFlt(v) THEN FloatStr(v.flt)
    ELSE IF IsStr(v) THEN v.str
    ELSE "None"

\* s[:n]
Prefix(s, n) == IF Len(s) <= n THEN s ELSE SubSeq(s, 1, n)

(***************************************************************************)
(* fitbit_client: one GET per fetcher.  resp is what the provider answers  *)
(* to the fetcher's request: a transport failure, an error status, a body  *)
(* that is no JSON, or a JSON body.                                        *)
(***************************************************************************)
_get(resp) ==
    IF resp.kind = "ConnectionError" THEN Raise("ConnectionError")
    ELSE IF resp.kind = "HTTPError" THEN Raise("HTTPError")
    ELSE IF resp.kind = "InvalidGrantError" THEN Raise("InvalidGrantError")
    ELSE IF resp.kind = "NotJSON" THEN Raise("JSONDecodeError")
    ELSE Return(resp.body)

\* the first index of seq whose element satisfies Test, 0 when none does
FirstIndex(seq, Test(_)) ==
    IF \E i \in 1..Len(seq) : Test(seq[i])
    THEN CHOOSE i \in 1..Len(seq) : Test(seq[i]) /\ \A j \in 1..(i - 1) : ~Test(seq[j])
    ELSE 0

_total_distance(summary) ==
    LET distances == Get(summary, "distances", List(<<>>)).list
        IsTotal(d) == Get(d, "activity", None) = Str("total")
        i == FirstIndex(distances, IsTotal)
    IN  IF i # 0 THEN Round(Get(distances[i], "distance", Num(0)), 2) ELSE Num(0)

\* data.get(...) on a body that is no dict raises AttributeError
OnDict(g, Body(_)) ==
    IF ~g.ok THEN g
    ELSE IF ~IsDict(g.val) THEN Raise("AttributeError")
    ELSE Return(Body(g.val))

get_activity_summary(resp, d) ==
    LET Body(data) ==
            LET s == Get(data, "summary", EmptyDict)
            IN  [steps |-> Get(s, "steps", Num(0)),
                 distance_km |-> _total_distance(s),
                 floors |-> Get(s, "floors", Num(0)),
                 calories_total |-> Get(s, "caloriesOut", Num(0)),
                 calories_activity |-> Get(s, "activityCalories", Num(0))]
    IN  OnDict(_get(resp), Body)

get_azm(resp, d) ==
    LET Body(data) ==
            LET minutes == Get(data, "activities-active-zone-minutes", List(<<>>))
                val == Get(minutes.list[1], "value", EmptyDict)
            IN  IF ~Truthy(minutes)
                THEN [azm_fat_burn |-> Num(0), azm_cardio |-> Num(0),
                      azm_peak |-> Num(0), azm_total |-> Num(0)]
                ELSE [azm_fat_burn |-> Get(val, "fatBurnActiveZoneMinutes", Num(0)),
                      azm_cardio |-> Get(val, "cardioActiveZoneMinutes", Num(0)),
                      azm_peak |-> Get(val, "peakActiveZoneMinutes", Num(0)),
                      azm_total |-> Get(val, "activeZoneMinutes", Num(0))]
    IN  OnDict(_get(resp), Body)

\* sleep defaults that leave the numeric fields blank
NoSleepBlank ==
    [sleep_start |-> Str(""), sleep_end |-> Str(""),
     sleep_duration_hrs |-> Str(""), sleep_efficiency |-> Str(""),
     sleep_deep_min |-> Str(""), sleep_light_min |-> Str(""),
     sleep_rem_min |-> Str(""), sleep_wake_min |-> Str("")]

\* the default sleep fields, returned when no entry is chosen
NoSleep ==
    [sleep_start |-> Str(""), sleep_end |-> Str(""),
     sleep_duration_hrs |-> Num(0), sleep_efficiency |-> Num(0),
     sleep_deep_min |-> Num(0), sleep_light_min |-> Num(0),
     sleep_rem_min |-> Num(0), sleep_wake_min |-> Num(0)]

\* a choice that takes the first entry whatever is flagged
MainSleepIndexFirst(sleeps) == IF Len(sleeps) > 0 /\ Truthy(sleeps[1]) THEN 1 ELSE 0

\* the index in sleeps of the entry get_sleep reports, 0 when it reports none
MainSleepIndex(sleeps) ==
    LET IsMain(s) == Truthy(Get(s, "isMainSleep", None))
        flagged == FirstIndex(sleeps, IsMain)
        i == IF flagged # 0 THEN flagged ELSE IF Len(sleeps) > 0 THEN 1 ELSE 0
    IN  IF i # 0 /\ Truthy(sleeps[i]) THEN i ELSE 0

SleepFields(main) ==
    LET summary == Get(Get(main, "levels", EmptyDict), "summary", EmptyDict)
        duration_ms == Get(main, "duration", Num(0))
        Minutes(stage) == Get(Get(summary, stage, EmptyDict), "minutes", Num(0))
    IN  [sleep_start |-> Get(main, "startTime", Str("")),
         sleep_end |-> Get(main, "endTime", Str("")),
         sleep_duration_hrs |-> Flt(10 * RoundQuot(duration_ms.num, 36000, HourTiesAbove)),
         sleep_efficiency |-> Get(main, "efficiency", Num(0)),
         sleep_deep_min |-> Minutes("deep"),
         sleep_light_min |-> Minutes("light"),
         sleep_rem_min |-> Minutes("rem"),
         sleep_wake_min |-> Minutes("wake")]

get_sleep(resp, d) ==
    LET Body(data) ==
            LET sleeps == Get(data, "sleep", List(<<>>)).list
                i == MainSleepIndex(sleeps)
            IN  IF i = 0 THEN NoSleep ELSE SleepFields(sleeps[i])
    IN  OnDict(_get(resp), Body)

get_heart_rate(resp, d) ==
    LET Body(data) ==
            LET entries == Get(data, "activities-heart", List(<<>>))
                val == Get(entries.list[1], "value", EmptyDict)
            IN  IF ~Truthy(entries) THEN [rhr |-> Str("")]
                ELSE [rhr |-> Get(val, "restingHeartRate", Str(""))]
    IN  OnDict(_get(resp), Body)

get_hrv(resp, d) ==
    LET Body(data) ==
            LET entries == Get(data, "hrv", List(<<>>))
                val == Get(entries.list[1], "value", EmptyDict)
            IN  IF ~Truthy(entries) THEN [hrv_rmssd |-> Str("")]
                ELSE [hrv_rmssd |->
                        IF Truthy(Get(val, "dailyRmssd", None))
                        THEN Round(Get(val, "dailyRmssd", Num(0)), 2) ELSE Str("")]
    IN  OnDict(_get(resp), Body)

get_spo2(resp, d) ==
    LET Body(data) ==
            LET v0 == Get(data, "value", data)
                val == IF IsList(v0)
                       THEN (IF Truthy(v0) THEN v0.list[1] ELSE EmptyDict)
                       ELSE v0
            IN  [spo2_avg |-> Get(val, "avg", Str("")),
                 spo2_min |-> Get(val, "min", Str("")),
                 spo2_max |-> Get(val, "max", Str(""))]
    IN  OnDict(_get(resp), Body)

get_breathing_rate(resp, d) ==
    LET Body(data) ==
            LET entries == Get(data, "br", List(<<>>))
                val == Get(entries.list[1], "value", EmptyDict)
            IN  IF ~Truthy(entries) THEN [breathing_rate |-> Str("")]
                ELSE [breathing_rate |->
                        IF Truthy(Get(val, "breathingRate", None))
                        THEN Round(Get(val, "breathingRate", Num(0)), 1) ELSE Str("")]
    IN  OnDict(_get(resp), Body)

get_skin_temp(resp, d) ==
    LET Body(data) ==
            LET entries == Get(data, "tempSkin", List(<<>>))
                val == Get(entries.list[1], "value", EmptyDict)
            IN  IF ~Truthy(entries) THEN [skin_temp_variation |-> Str("")]
                ELSE [skin_temp_variation |-> Get(val, "nightlyRelative", Str(""))]
    IN  OnDict(_get(resp), Body)

\* the cell for the vo2Max of the first entry: a range or a single value
Vo2Cell(vo2) ==
    IF IsDict(vo2)
    THEN Str(Format(Get(vo2, "low", Str(""))) \o "-" \o Format(Get(vo2, "high", Str(""))))
    ELSE IF Truthy(vo2) THEN vo2 ELSE Str("")

get_vo2_max(resp, d) ==
    LET g == _get(resp)
        entries == Get(g.val, "cardioScore", List(<<>>))
        val == Get(entries.list[1], "value", EmptyDict)
    IN  IF ~g.ok THEN g
        ELSE IF ~IsDict(g.val) THEN Raise("AttributeError")
        ELSE IF ~Truthy(entries) THEN Return([vo2_max |-> Str("")])
        ELSE IF ~IsDict(entries.list[1]) \/ ~IsDict(val) THEN Raise("AttributeError")
        ELSE Return([vo2_max |-> Vo2Cell(Get(val, "vo2Max", None))])

\* "; ".join(parts)
RECURSIVE Join(_)
Join(parts) ==
    IF Len(parts) = 0 THEN ""
    ELSE IF Len(parts) = 1 THEN parts[1]
    ELSE parts[1] \o "; " \o Join(Tail(parts))

\* the summaries of the activities logged on date d, in list order
RECURSIVE ExerciseParts(_, _)
ExerciseParts(activities, d) ==
    IF Len(activities) = 0 THEN <<>>
    ELSE LET a == activities[1]
             log_date == Prefix(Get(a, "startDate", Get(a, "originalStartTime", Str(""))).str, 10)
             name == Get(a, "activityName", Str("Unknown"))
             duration_min ==
                 Flt(100 * RoundQuot(Get(a, "activeDuration", Num(0)).num, 6000, MinuteTiesAbove))
             cals == Get(a, "calories", Num(0))
             part == Format(name) \o " (" \o Format(duration_min) \o "min, "
                         \o Format(cals) \o "cal)"
         IN  IF log_date # DateStr(d) THEN ExerciseParts(Tail(activities), d)
             ELSE <<part>> \o ExerciseParts(Tail(activities), d)

get_exercises(resp, d) ==
    LET Body(data) ==
            LET activities == Get(data, "activities", List(<<>>))
                parts == ExerciseParts(activities.list, d)
            IN  IF ~Truthy(activities) THEN [exercises |-> Str("None")]
                ELSE [exercises |-> Str(IF Len(parts) > 0 THEN Join(parts) ELSE "None")]
    IN  OnDict(_get(resp), Body)

\* fetch_all's list of fetchers
fetchers ==
    <<"get_activity_summary", "get_azm", "get_sleep", "get_heart_rate", "get_hrv",
      "get_spo2", "get_breathing_rate", "get_skin_temp", "get_vo2_max", "get_exercises">>

\* fn(session, d), the provider answering resp
CallFetcher(fn, resp, d) ==
    CASE fn = "get_activity_summary" -> get_activity_summary(resp, d)
      [] fn = "get_azm" -> get_azm(resp, d)
      [] fn = "get_sleep" -> get_sleep(resp, d)
      [] fn = "get_heart_rate" -> get_heart_rate(resp, d)
      [] fn = "get_hrv" -> get_hrv(resp, d)
      [] fn = "get_spo2" -> get_spo2(resp, d)
      [] fn = "get_breathing_rate" -> get_breathing_rate(resp, d)
      [] fn = "get_skin_temp" -> get_skin_temp(resp, d)
      [] fn = "get_vo2_max" -> get_vo2_max(resp, d)
      [] fn = "get_exercises" -> get_exercises(resp, d)

(***************************************************************************)
(* Parsing of command-line and query text.                                 *)
(***************************************************************************)
Digits == "0123456789"

IsDigit(c) == \E i \in 1..10 : SubSeq(Digits, i, i) = c
DigitVal(c) == (CHOOSE i \in 1..10 : SubSeq(Digits, i, i) = c) - 1
AllDigits(s) == Len(s) > 0 /\ \A i \in 1..Len(s) : IsDigit(SubSeq(s, i, i))

RECURSIVE DigitsVal(_)
DigitsVal(s) ==
    IF Len(s) = 0 THEN 0
    ELSE 10 * DigitsVal(SubSeq(s, 1, Len(s) - 1)) + DigitVal(SubSeq(s, Len(s), Len(s)))

\* int(s): an optional sign and decimal digits
PyInt(s) ==
    LET signed == Len(s) > 0 /\ SubSeq(s, 1, 1) \in {"+", "-"}
        body == IF signed THEN SubSeq(s, 2, Len(s)) ELSE s
    IN  IF ~AllDigits(body) THEN Raise("ValueError")
        ELSE Return(IF signed /\ SubSeq(s, 1, 1) = "-" THEN 0 - DigitsVal(body)
                    ELSE DigitsVal(body))

\* s.split(sep) for a one-character sep
RECURSIVE Split(_, _)
Split(s, sep) ==
    IF \E i \in 1..Len(s) : SubSeq(s, i, i) = sep
    THEN LET i == CHOOSE k \in 1..Len(s) :
                      /\ SubSeq(s, k, k) = sep
                      /\ \A j \in 1..(k - 1) : SubSeq(s, j, j) # sep
         IN  <<SubSeq(s, 1, i - 1)>> \o Split(SubSeq(s, i + 1, Len(s)), sep)
    ELSE <<s>>

IsLeap(y) == (y % 4 = 0 /\ y % 100 # 0) \/ y % 400 = 0
DaysInMonth(y, m) ==
    IF m = 2 THEN (IF IsLeap(y) THEN 29 ELSE 28)
    ELSE IF m \in {4, 6, 9, 11} THEN 30 ELSE 31

\* date.fromisoformat(s) for the extended format YYYY-MM-DD
fromisoformat(s) ==
    LET shaped == /\ Len(s) = 10
                  /\ SubSeq(s, 5, 5) = "-" /\ SubSeq(s, 8, 8) = "-"
                  /\ AllDigits(SubSeq(s, 1, 4))
                  /\ AllDigits(SubSeq(s, 6, 7)) /\ AllDigits(SubSeq(s, 9, 10))
        y == DigitsVal(SubSeq(s, 1, 4))
        m == DigitsVal(SubSeq(s, 6, 7))
        dd == DigitsVal(SubSeq(s, 9, 10))
    IN  IF shaped /\ y >= 1 /\ m \in 1..12 /\ dd \in 1..DaysInMonth(y, m)
        THEN Return([year |-> y, month |-> m, day |-> dd])
        ELSE Raise("ValueError")

Lowers == "abcdefghijklmnopqrstuvwxyz"
Uppers == "ABCDEFGHIJKLMNOPQRSTUVWXYZ"
LetterIndex(c, alphabet) ==
    IF \E i \in 1..26 : SubSeq(alphabet, i, i) = c
    THEN CHOOSE i \in 1..26 : SubSeq(alphabet, i, i) = c ELSE 0
UpperChar(c) ==
    LET i == LetterIndex(c, Lowers) IN IF i # 0 THEN SubSeq(Uppers, i, i) ELSE c
LowerChar(c) ==
    LET i == LetterIndex(c, Uppers) IN IF i # 0 THEN SubSeq(Lowers, i, i) ELSE c

RECURSIVE LowerStr(_)
LowerStr(s) ==
    IF Len(s) = 0 THEN "" ELSE LowerChar(SubSeq(s, 1, 1)) \o LowerStr(SubSeq(s, 2, Len(s)))

\* s.capitalize()
capitalize(s) ==
    IF Len(s) = 0 THEN "" ELSE UpperChar(SubSeq(s, 1, 1)) \o LowerStr(SubSeq(s, 2, Len(s)))

\* a decoded query value: its text and whether every character is ASCII
QVal(text, ascii) == [text |-> text, ascii |-> ascii]

\* parse_qs(query).get(name, [None])[0]: blank values are dropped, the first one counts
QueryParam(query, name) ==
    LET Named(p) == p[1] = name /\ p[2].text # ""
        i == FirstIndex(query, Named)
    IN  IF i = 0 THEN None ELSE query[i][2]

\* hmac.compare_digest(a, b) on two str
compare_digest(a, b) ==
    IF ~a.ascii \/ ~b.ascii THEN Raise("TypeError") ELSE Return(a.text = b.text)

(***************************************************************************)
(* Bounds and input domains.                                               *)
(***************************************************************************)
\* GET requests the HTTP listener handles in one run
MaxRequests == 2
\* readings of one bp command, items of one diet command
MaxReadings == 2
\* authorize() calls made by one process
MaxAuthorize == 2

\* config.API_KEY after _ensure_loaded()
API_KEY == QVal("s3cret", TRUE)

today == [year |-> 2024, month |-> 1, day |-> 6]

VARIABLES
    cmd,         \* the invocation: the server, or a CLI command with its arguments
    pc,          \* where the process is
    running,     \* whether the process is alive
    exit_code,   \* its exit status once it is not
    tokenFile,   \* the credential file: None or the stored token
    upstream,    \* the JSON body the provider holds for each fetcher's endpoint
    target,      \* fetch_all: the date d
    idx,         \* fetch_all: the index of the next fetcher
    row,         \* fetch_all: the row being built
    warnings,    \* fetch_all: the fetchers that failed, in order
    answered,    \* per fetcher called, whether the provider served its stored body
    calls,       \* the collaborators called by the current command or request
    sheet,       \* the rows appended by the current command or request
    rows,        \* append_bp, append_diet: the rows built
    tried,       \* append_bp, append_diet: how many of them append_row was called for
    tab,         \* the worksheet being written
    clock,       \* the wall clock, in seconds
    handled,     \* server: the requests handled so far
    request,     \* server: the request being handled
    responses,   \* server: per handled request, the response sent
    auth_code,   \* _CallbackHandler.auth_code
    error,       \* _CallbackHandler.error
    authCalls,   \* authorize() calls started
    callbacks,   \* requests the callback listener handled, per authorize() call
    exchanges,   \* codes sent to the token endpoint, per authorize() call
    outcome,     \* how each finished authorize() call ended
    saves        \* _save_token calls, per authorize() call

vars == <<cmd, pc, running, exit_code, tokenFile, upstream, target, idx, row, warnings,
          answered,
          calls, sheet, rows, tried, tab, clock, handled, request, responses,
          auth_code, error, authCalls, callbacks, exchanges, outcome, saves>>

fetchVars == <<target, idx, row, warnings, answered>>
serverVars == <<handled, request, responses>>
authVars == <<auth_code, error, authCalls, callbacks, exchanges, outcome, saves>>
writeVars == <<rows, tried, tab>>

(***************************************************************************)
(* The provider.  A scenario gives, per fetcher, the JSON body its         *)
(* endpoint holds; any single request may also fail.                       *)
(***************************************************************************)
FetcherNames == {fetchers[i] : i \in 1..Len(fetchers)}

EmptyBodies == [fn \in FetcherNames |-> EmptyDict]

\* every top-level key present and holding nothing
HollowBodies ==
    [fn \in FetcherNames |->
        CASE fn = "get_activity_summary" -> [summary |-> EmptyDict]
          [] fn = "get_azm" -> ("activities-active-zone-minutes" :> List(<<>>))
          [] fn = "get_sleep" -> [sleep |-> List(<<>>)]
          [] fn = "get_heart_rate" -> ("activities-heart" :> List(<<>>))
          [] fn = "get_hrv" -> [hrv |-> List(<<>>)]
          [] fn = "get_spo2" -> [value |-> List(<<>>)]
          [] fn = "get_breathing_rate" -> [br |-> List(<<>>)]
          [] fn = "get_skin_temp" -> [tempSkin |-> List(<<>>)]
          [] fn = "get_vo2_max" -> [cardioScore |-> List(<<>>)]
          [] fn = "get_exercises" -> [activities |-> List(<<>>)]]

NapEntry ==
    [isMainSleep |-> Bool(FALSE), startTime |-> Str("2024-01-05T14:00:00.000"),
     endTime |-> Str("2024-01-05T14:30:00.000"), duration |-> Num(1800000),
     efficiency |-> Num(80)]

NightEntry ==
    [isMainSleep |-> Bool(TRUE), startTime |-> Str("2024-01-04T23:10:00.000"),
     endTime |-> Str("2024-01-05T06:52:30.000"), duration |-> Num(27750000),
     efficiency |-> Num(93),
     levels |-> [summary |-> [deep |-> [minutes |-> Num(71)], light |-> [minutes |-> Num(250)],
                              rem |-> [minutes |-> Num(96)], wake |-> [minutes |-> Num(45)]]]]

FullBodies ==
    [fn \in FetcherNames |->
        CASE fn = "get_activity_summary" ->
                [summary |-> [steps |-> Num(8123), floors |-> Num(9), caloriesOut |-> Num(2410),
                              activityCalories |-> Num(980),
                              distances |-> List(<<[activity |-> Str("tracker"), distance |-> Flt(5120)],
                                                   [activity |-> Str("total"), distance |-> Flt(6237)]>>)]]
          [] fn = "get_azm" ->
                ("activities-active-zone-minutes" :>
                    List(<<[value |-> [fatBurnActiveZoneMinutes |-> Num(20),
                                       cardioActiveZoneMinutes |-> Num(6),
                                       activeZoneMinutes |-> Num(32)]]>>))
          [] fn = "get_sleep" -> [sleep |-> List(<<NapEntry, NightEntry>>)]
          [] fn = "get_heart_rate" ->
                ("activities-heart" :> List(<<[value |-> [restingHeartRate |-> Num(58)]]>>))
          [] fn = "get_hrv" -> [hrv |-> List(<<[value |-> [dailyRmssd |-> Flt(41237)]]>>)]
          [] fn = "get_spo2" -> [value |-> [avg |-> Flt(96500), min |-> Flt(93000), max |-> Flt(99000)]]
          [] fn = "get_breathing_rate" ->
                [br |-> List(<<[value |-> [breathingRate |-> Flt(14820)]]>>)]
          [] fn = "get_skin_temp" ->
                [tempSkin |-> List(<<[value |-> [nightlyRelative |-> Flt(300)]]>>)]
          [] fn = "get_vo2_max" ->
                [cardioScore |-> List(<<[value |-> [vo2Max |-> [low |-> Num(44), high |-> Num(48)]]]>>)]
          [] fn = "get_exercises" ->
                [activities |->
                    List(<<[startDate |-> Str("2024-01-05"), activityName |-> Str("Run"),
                            activeDuration |-> Num(1800000), calories |-> Num(310)],
                           [originalStartTime |-> Str("2024-01-06T07:00:00.000+00:00"),
                            activityName |-> Str("Walk"), activeDuration |-> Num(1234000),
                            calories |-> Num(95)]>>)]]

Scenarios == {EmptyBodies, HollowBodies, FullBodies}

\* the provider serving the body it holds for fetcher fn
StoredBody(fn) == [kind |-> "JSON", body |-> upstream[fn]]

\* what the provider may answer to the request of fetcher fn
Responses(fn) ==
    {[kind |-> "ConnectionError"], [kind |-> "HTTPError"], [kind |-> "InvalidGrantError"],
     [kind |-> "NotJSON"],
     [kind |-> "JSON", body |-> List(<<>>)],
     StoredBody(fn)}

(***************************************************************************)
(* sheets_writer                                                           *)
(***************************************************************************)
FITBIT_COLUMNS ==
    <<"steps", "distance_km", "floors", "calories_total", "calories_activity",
      "azm_fat_burn", "azm_cardio", "azm_peak", "azm_total",
      "sleep_start", "sleep_end", "sleep_duration_hrs", "sleep_efficiency",
      "sleep_deep_min", "sleep_light_min", "sleep_rem_min", "sleep_wake_min",
      "rhr", "hrv_rmssd", "spo2_avg", "spo2_min", "spo2_max",
      "breathing_rate", "skin_temp_variation", "vo2_max", "exercises">>

\* _timestamp(): the clock formatted as %Y-%m-%d %H:%M:%S
_timestamp(t) ==
    Str(DateStr(today) \o " " \o Pad2(t \div 3600) \o ":" \o Pad2((t \div 60) % 60)
            \o ":" \o Pad2(t % 60))

\* a row built from the keys the mapping holds, leaving out the missing ones
FitbitRowCompact(t, metrics) ==
    LET present == SelectSeq(FITBIT_COLUMNS, LAMBDA col : col \in DOMAIN metrics)
    IN  <<_timestamp(t)>> \o [i \in 1..Len(present) |-> metrics[present[i]]]

\* the row append_fitbit builds
FitbitRow(t, metrics) ==
    <<_timestamp(t)>> \o [i \in 1..Len(FITBIT_COLUMNS) |-> Get(metrics, FITBIT_COLUMNS[i], Str(""))]

\* rows stamped one by one as they are written
BpRowsStampedEach(t, readings) ==
    [i \in 1..Len(readings) |->
        <<_timestamp(t + i - 1), Num(i), Get(readings[i], "systolic", Str("")),
          Get(readings[i], "diastolic", Str("")), Get(readings[i], "pulse", Str("")),
          Get(readings[i], "notes", Str(""))>>]

\* the rows append_bp builds: one timestamp, 1-based index
BpRows(t, readings) ==
    [i \in 1..Len(readings) |->
        <<_timestamp(t), Num(i), Get(readings[i], "systolic", Str("")),
          Get(readings[i], "diastolic", Str("")), Get(readings[i], "pulse", Str("")),
          Get(readings[i], "notes", Str(""))>>]

\* the rows append_diet builds
DietRows(t, meal, items) ==
    [i \in 1..Len(items) |->
        <<_timestamp(t), Str(capitalize(meal)), Get(items[i], "food_item", Str("")),
          Get(items[i], "weight_grams", Str("")), Get(items[i], "notes", Str(""))>>]

(***************************************************************************)
(* server: FetchHandler.do_GET up to the pipeline                          *)
(***************************************************************************)
Response(status, kind) == [status |-> status, kind |-> kind]
\* the handler raised before sending anything: the connection is closed
NoResponse == Response(0, "none")

\* the checks of do_GET before the pipeline: a response, or the target date
do_GET_checks(req) ==
    LET key == QueryParam(req.query, "key")
        same == compare_digest(key, API_KEY)
        raw_date == QueryParam(req.query, "date")
        parsed == IF IsNone(raw_date) THEN Return(today) ELSE fromisoformat(raw_date.text)
    IN  IF req.path # "/fetch" THEN [respond |-> Response(404, "usage")]
        ELSE IF IsNone(key) THEN [respond |-> Response(403, "forbidden")]
        ELSE IF ~same.ok THEN [respond |-> NoResponse]
        ELSE IF ~same.val THEN [respond |-> Response(403, "forbidden")]
        ELSE IF ~parsed.ok THEN [respond |-> Response(400, "bad date")]
        ELSE [target |-> parsed.val]

KeyParams ==
    {<<>>,
     <<<<"key", QVal("", TRUE)>>>>,
     <<<<"key", API_KEY>>>>,
     <<<<"key", QVal("guess", TRUE)>>>>,
     <<<<"key", QVal("s3cr?t", FALSE)>>>>,
     <<<<"key", QVal("guess", TRUE)>>, <<"key", API_KEY>>>>}

DateParams ==
    {<<>>,
     <<<<"date", QVal("2024-01-05", TRUE)>>>>,
     <<<<"date", QVal("2024-1-5", TRUE)>>>>,
     <<<<"date", QVal("2024-02-30", TRUE)>>>>,
     <<<<"date", QVal("yesterday", TRUE)>>>>}

\* every key with no date, a good date and a bad one; every date with the
\* right key; another path with and without the right key
Requests ==
    {[path |-> "/fetch", query |-> k \o d] :
        k \in KeyParams, d \in {<<>>, <<<<"date", QVal("2024-01-05", TRUE)>>>>,
                                <<<<"date", QVal("yesterday", TRUE)>>>>}}
    \cup {[path |-> "/fetch", query |-> <<<<"key", API_KEY>>>> \o d] : d \in DateParams}
    \cup {[path |-> "/fetch/now", query |-> k] : k \in {<<>>, <<<<"key", API_KEY>>>>}}

(***************************************************************************)
(* main: the CLI commands' argument handling                               *)
(***************************************************************************)
\* one bp argument: the reading dict, SystemExit(1) or an uncaught ValueError
ParseReading(raw) ==
    LET parts == Split(raw, "/")
        systolic == PyInt(parts[1])
        diastolic == PyInt(parts[2])
        pulse == IF Len(parts) > 2 THEN PyInt(parts[3]) ELSE Return(0)
    IN  IF Len(parts) < 2 THEN Raise("SystemExit")
        ELSE IF ~systolic.ok THEN systolic
        ELSE IF ~diastolic.ok THEN diastolic
        ELSE IF ~pulse.ok THEN pulse
        ELSE Return([systolic |-> Num(systolic.val), diastolic |-> Num(diastolic.val),
                     pulse |-> IF Len(parts) > 2 THEN Num(pulse.val) ELSE Str(""),
                     notes |-> Str("")])

\* cmd_bp's loop over args.readings: the readings list, or the first exception
RECURSIVE ParseReadings(_, _)
ParseReadings(raws, readings) ==
    IF Len(raws) = 0 THEN Return(readings)
    ELSE LET r == ParseReading(raws[1])
         IN  IF ~r.ok THEN r ELSE ParseReadings(Tail(raws), Append(readings, r.val))

\* cmd_diet's loop over args.items: food names, each with the weight that follows it
RECURSIVE ParseItems(_, _)
ParseItems(raw, items) ==
    IF Len(raw) = 0 THEN items
    ELSE LET weight == IF Len(raw) > 1 THEN PyInt(raw[2]) ELSE Raise("none")
             item == [food_item |-> Str(raw[1]),
                      weight_grams |-> IF weight.ok THEN Num(weight.val) ELSE Str(""),
                      notes |-> Str("")]
         IN  ParseItems(SubSeq(raw, IF weight.ok THEN 3 ELSE 2, Len(raw)), Append(items, item))

SeqsUpTo(S, n) == UNION {[1..k -> S] : k \in 1..n}

ReadingArgs == {"120/80/65", "118/78", "120", "12o/80", "120/80/", "120/80/65/70"}
ItemArgs == {"Rice", "300", "Yam"}

Commands ==
    {[name |-> "server"]}
    \cup {[name |-> "fitbit", date |-> a] : a \in {None, Str("2024-01-05"), Str("05.01.2024")}}
    \cup {[name |-> "bp", readings |-> r] : r \in SeqsUpTo(ReadingArgs, MaxReadings)}
    \cup {[name |-> "diet", meal |-> m, items |-> it] :
            m \in {"lunch", "late SNACK"}, it \in SeqsUpTo(ItemArgs, MaxReadings + 1)}
    \cup {[name |-> "auth", authorizations |-> n] : n \in 1..MaxAuthorize}

\* a stored token: the authorization code it was exchanged for
Token(code) == [access_token |-> code]

(***************************************************************************)
(* The process.                                                            *)
(***************************************************************************)
\* the state of a process that has not run yet
Fresh ==
    /\ pc = IF cmd.name = "server" THEN "idle" ELSE "start"
    /\ running = TRUE
    /\ exit_code = 0
    /\ target = today
    /\ idx = 1
    /\ row = EmptyDict
    /\ warnings = <<>>
    /\ answered = <<>>
    /\ calls = <<>>
    /\ sheet = <<>>
    /\ rows = <<>>
    /\ tried = 0
    /\ tab = ""
    /\ clock = 0
    /\ handled = 0
    /\ request = None
    /\ responses = <<>>
    /\ auth_code = None
    /\ error = None
    /\ authCalls = 0
    /\ callbacks = <<>>
    /\ exchanges = <<>>
    /\ outcome = <<>>
    /\ saves = <<>>

Init ==
    /\ cmd \in Commands
    /\ tokenFile \in {None, Token("old")}
    /\ upstream \in IF cmd.name = "fitbit" THEN Scenarios ELSE {FullBodies}
    /\ Fresh

\* the process ends with status code
Exit(code) == running' = FALSE /\ exit_code' = code /\ pc' = "exited"

\* fetch_all(d) up to its loop: get_session() leaves through SystemExit(1)
\* when no token is stored
get_session == IF IsNone(tokenFile) THEN Raise("SystemExit") ELSE Return(tokenFile)

StartFetchAll(d) ==
    /\ target' = d
    /\ idx' = 1
    /\ row' = EmptyDict
    /\ warnings' = <<>>
    /\ answered' = <<>>
    /\ calls' = <<"fetch_all">>
    /\ sheet' = <<>>

\* a loop that a raising fetcher ends
NextFetcherAbort(i, r) == IF r.ok THEN i + 1 ELSE Len(fetchers) + 1

\* where fetch_all's loop goes after fetcher number i gave outcome r
NextFetcher(i, r) == i + 1

\* the row after fetcher outcome r
MergeRow(metrics, r) == IF r.ok THEN Update(metrics, r.val) ELSE metrics

\* the process leaves through an exception raised by the running command:
\* the server answers 500 and goes on, a CLI command dies with status 1
PipelineFailed ==
    IF cmd.name = "server"
    THEN /\ responses' = Append(responses, Response(500, "trace"))
         /\ handled' = handled + 1
         /\ pc' = "idle"
         /\ UNCHANGED <<running, exit_code, request>>
    ELSE /\ Exit(1)
         /\ UNCHANGED serverVars

(***************************************************************************)
(* Actions.                                                                *)
(***************************************************************************)
\* server: one GET request, do_GET up to the first fetcher
ServerRequest(req) ==
    /\ running /\ cmd.name = "server" /\ pc = "idle"
    /\ handled < MaxRequests
    /\ request' = req
    /\ LET c == do_GET_checks(req)
       IN  IF "respond" \in DOMAIN c
           THEN /\ responses' = Append(responses, c.respond)
                /\ handled' = handled + 1
                /\ calls' = <<>>
                /\ sheet' = <<>>
                /\ target' = today /\ idx' = 1 /\ row' = EmptyDict
                /\ warnings' = <<>> /\ answered' = <<>>
                /\ UNCHANGED <<pc, running, exit_code>>
           ELSE /\ StartFetchAll(c.target)
                /\ IF get_session.ok
                   THEN /\ pc' = "fetch"
                        /\ UNCHANGED <<running, exit_code, responses, handled>>
                   ELSE \* SystemExit is no Exception: it passes the handler's
                        \* except clause and serve_forever, and ends the process
                        /\ Exit(1)
                        /\ responses' = Append(responses, NoResponse)
                        /\ handled' = handled + 1
    /\ UNCHANGED <<cmd, tokenFile, upstream, clock>>
    /\ UNCHANGED writeVars
    /\ UNCHANGED authVars

\* main.py fitbit [--date]: argparse, cmd_fitbit up to the first fetcher
CliFitbit ==
    /\ running /\ cmd.name = "fitbit" /\ pc = "start"
    /\ LET parsed == IF IsNone(cmd.date) THEN Return(today) ELSE fromisoformat(cmd.date.str)
       IN  IF ~parsed.ok
           THEN \* argparse rejects the argument
                /\ Exit(2)
                /\ UNCHANGED <<calls, sheet>>
                /\ UNCHANGED fetchVars
           ELSE /\ StartFetchAll(parsed.val)
                /\ IF get_session.ok
                   THEN pc' = "fetch" /\ UNCHANGED <<running, exit_code>>
                   ELSE Exit(1)
    /\ UNCHANGED <<cmd, tokenFile, upstream, clock>>
    /\ UNCHANGED writeVars
    /\ UNCHANGED serverVars
    /\ UNCHANGED authVars

\* fetch_all: one turn of the loop over the fetchers
FetchStep ==
    /\ running /\ pc = "fetch"
    /\ idx <= Len(fetchers)
    /\ \E resp \in Responses(fetchers[idx]) :
          LET r == CallFetcher(fetchers[idx], resp, target)
              next == NextFetcher(idx, r)
          IN  /\ calls' = Append(calls, fetchers[idx])
              /\ row' = MergeRow(row, r)
              /\ warnings' = IF r.ok THEN warnings ELSE Append(warnings, fetchers[idx])
              /\ answered' = Append(answered, resp = StoredBody(fetchers[idx]))
              /\ idx' = next
              /\ pc' = IF next > Len(fetchers) THEN "append_fitbit" ELSE "fetch"
    /\ UNCHANGED <<cmd, running, exit_code, tokenFile, upstream, target, sheet, clock>>
    /\ UNCHANGED writeVars
    /\ UNCHANGED serverVars
    /\ UNCHANGED authVars

\* append_fitbit(metrics), and what the caller does with its outcome
AppendFitbit ==
    /\ running /\ pc = "append_fitbit"
    /\ \E opened \in BOOLEAN, appended \in BOOLEAN :
          /\ calls' = IF opened THEN calls \o <<"append_fitbit", "append_row">>
                      ELSE Append(calls, "append_fitbit")
          /\ clock' = clock + 1
          /\ IF opened /\ appended
             THEN /\ sheet' = Append(sheet, [tab |-> "Fitbit", row |-> FitbitRow(clock, row)])
                  /\ IF cmd.name = "server"
                     THEN /\ responses' = Append(responses, Response(200, "summary"))
                          /\ handled' = handled + 1
                          /\ pc' = "idle"
                          /\ UNCHANGED <<running, exit_code, request>>
                     ELSE /\ Exit(0)
                          /\ UNCHANGED serverVars
             ELSE /\ sheet' = sheet
                  /\ PipelineFailed
    /\ UNCHANGED <<cmd, tokenFile, upstream>>
    /\ UNCHANGED fetchVars
    /\ UNCHANGED writeVars
    /\ UNCHANGED authVars

\* a row loop that logs a failed append and goes on
AfterAppendSwallow(appended, left) == IF left = 0 THEN "return" ELSE "next"

\* what the row loop of append_bp and append_diet does after an append_row call
\* that succeeded or raised, with `left` rows still to go
AfterAppend(appended, left) ==
    IF ~appended THEN "raise" ELSE IF left = 0 THEN "return" ELSE "next"

\* append_bp(readings) / append_diet(meal, items) up to the row loop
StartAppend(fn, sheetTab, built) ==
    \E opened \in BOOLEAN :
        /\ calls' = <<fn>>
        /\ sheet' = <<>>
        /\ tried' = 0
        /\ IF ~opened
           THEN Exit(1) /\ UNCHANGED <<rows, tab>>
           ELSE /\ rows' = built
                /\ tab' = sheetTab
                /\ IF Len(built) = 0
                   THEN Exit(0)
                   ELSE pc' = "append_rows" /\ UNCHANGED <<running, exit_code>>

\* main.py bp <reading>...: cmd_bp, and append_bp up to its row loop
CliBp ==
    /\ running /\ cmd.name = "bp" /\ pc = "start"
    /\ LET parsed == ParseReadings(cmd.readings, <<>>)
       IN  IF ~parsed.ok
           THEN /\ Exit(1)
                /\ UNCHANGED <<calls, sheet>>
                /\ UNCHANGED writeVars
           ELSE StartAppend("append_bp", "Blood Pressure", BpRows(clock, parsed.val))
    /\ UNCHANGED <<cmd, tokenFile, upstream, clock>>
    /\ UNCHANGED fetchVars
    /\ UNCHANGED serverVars
    /\ UNCHANGED authVars

\* main.py diet <meal> <item>...: cmd_diet, and append_diet up to its row loop
CliDiet ==
    /\ running /\ cmd.name = "diet" /\ pc = "start"
    /\ IF Len(cmd.items) < 2
       THEN /\ Exit(1)
            /\ UNCHANGED <<calls, sheet>>
            /\ UNCHANGED writeVars
       ELSE StartAppend("append_diet", "Diet",
                        DietRows(clock, cmd.meal, ParseItems(cmd.items, <<>>)))
    /\ UNCHANGED <<cmd, tokenFile, upstream, clock>>
    /\ UNCHANGED fetchVars
    /\ UNCHANGED serverVars
    /\ UNCHANGED authVars

\* one ws.append_row(row) of the row loop
AppendRow ==
    /\ running /\ pc = "append_rows"
    /\ tried < Len(rows)
    /\ \E appended \in BOOLEAN :
          LET after == AfterAppend(appended, Len(rows) - (tried + 1))
          IN  /\ calls' = Append(calls, "append_row")
              /\ tried' = tried + 1
              /\ clock' = clock + 1
              /\ sheet' = IF appended
                          THEN Append(sheet, [tab |-> tab, row |-> rows[tried + 1]])
                          ELSE sheet
              /\ CASE after = "raise" -> Exit(1)
                   [] after = "return" -> Exit(0)
                   [] after = "next" -> UNCHANGED <<pc, running, exit_code>>
    /\ UNCHANGED <<cmd, tokenFile, upstream, rows, tab>>
    /\ UNCHANGED fetchVars
    /\ UNCHANGED serverVars
    /\ UNCHANGED authVars

(***************************************************************************)
(* fitbit_auth: the one-shot callback listener and authorize()             *)
(***************************************************************************)
\* _CallbackHandler.do_GET: the class fields after a GET with this query
CallbackFields(query, fields) ==
    LET code == QueryParam(query, "code")
        err == QueryParam(query, "error")
    IN  IF ~IsNone(code)
        THEN [fields EXCEPT !.auth_code = Str(code.text)]
        ELSE [fields EXCEPT !.error = IF IsNone(err) THEN Str("unknown") ELSE Str(err.text)]

\* a listener that starts to wait without clearing the class fields
ResetFieldsKept(fields) == fields

\* _wait_for_callback: the class fields as the listener starts to wait
ResetFields(fields) == [auth_code |-> None, error |-> None]

\* _wait_for_callback after handle_request(): the code, or the error raised
WaitResult(fields) ==
    IF Truthy(fields.error) THEN Raise("OAuth error")
    ELSE IF ~Truthy(fields.auth_code) THEN Raise("timed out")
    ELSE Return(fields.auth_code.str)

CallbackQueries ==
    {<<>>,
     <<<<"code", QVal("c1", TRUE)>>, <<"state", QVal("xyz", TRUE)>>>>,
     <<<<"code", QVal("c2", TRUE)>>>>,
     <<<<"code", QVal("", TRUE)>>, <<"state", QVal("xyz", TRUE)>>>>,
     <<<<"error", QVal("access_denied", TRUE)>>>>,
     <<<<"error", QVal("access_denied", TRUE)>>, <<"code", QVal("c1", TRUE)>>>>}

CallbackRequests == {[method |-> m, query |-> q] : m \in {"GET", "POST"}, q \in CallbackQueries}

\* authorize() up to handle_request()
AuthorizeStart ==
    /\ running /\ cmd.name = "auth" /\ pc \in {"start", "authorized"}
    /\ authCalls < cmd.authorizations
    /\ authCalls' = authCalls + 1
    /\ LET fields == ResetFields([auth_code |-> auth_code, error |-> error])
       IN  auth_code' = fields.auth_code /\ error' = fields.error
    /\ callbacks' = Append(callbacks, <<>>)
    /\ exchanges' = Append(exchanges, <<>>)
    /\ saves' = Append(saves, 0)
    /\ pc' = "auth_wait"
    /\ UNCHANGED <<cmd, running, exit_code, tokenFile, upstream, calls, sheet, clock, outcome>>
    /\ UNCHANGED fetchVars
    /\ UNCHANGED writeVars
    /\ UNCHANGED serverVars

\* handle_request(): the listener serves the one request that arrived;
\* a method without a handler is answered 501 and sets nothing
CallbackArrives(req) ==
    /\ running /\ pc = "auth_wait"
    /\ LET fields == IF req.method = "GET"
                     THEN CallbackFields(req.query, [auth_code |-> auth_code, error |-> error])
                     ELSE [auth_code |-> auth_code, error |-> error]
       IN  auth_code' = fields.auth_code /\ error' = fields.error
    /\ callbacks' = [callbacks EXCEPT ![authCalls] = Append(@, req)]
    /\ pc' = "auth_check"
    /\ UNCHANGED <<cmd, running, exit_code, tokenFile, upstream, calls, sheet, clock>>
    /\ UNCHANGED <<authCalls, exchanges, outcome, saves>>
    /\ UNCHANGED fetchVars
    /\ UNCHANGED writeVars
    /\ UNCHANGED serverVars

\* handle_request(): nothing arrived within server.timeout
CallbackTimeout ==
    /\ running /\ pc = "auth_wait"
    /\ pc' = "auth_check"
    /\ clock' = clock + 120
    /\ UNCHANGED <<cmd, running, exit_code, tokenFile, upstream, calls, sheet>>
    /\ UNCHANGED authVars
    /\ UNCHANGED fetchVars
    /\ UNCHANGED writeVars
    /\ UNCHANGED serverVars

\* the caller of authorize() after it returned or raised: main.py ends,
\* another caller may authorize again
AuthorizeEnds(ok) ==
    IF authCalls < cmd.authorizations
    THEN pc' = "authorized" /\ UNCHANGED <<running, exit_code>>
    ELSE Exit(IF ok THEN 0 ELSE 1)

\* the rest of _wait_for_callback, and authorize() from the token exchange on
AuthorizeFinish ==
    /\ running /\ pc = "auth_check"
    /\ LET code == WaitResult([auth_code |-> auth_code, error |-> error])
       IN  IF ~code.ok
           THEN /\ outcome' = Append(outcome, code.exc)
                /\ AuthorizeEnds(FALSE)
                /\ UNCHANGED <<tokenFile, exchanges, saves>>
           ELSE \E exchanged \in BOOLEAN :
                   /\ exchanges' = [exchanges EXCEPT ![authCalls] = Append(@, code.val)]
                   /\ IF exchanged
                      THEN /\ tokenFile' = Token(code.val)
                           /\ saves' = [saves EXCEPT ![authCalls] = @ + 1]
                           /\ outcome' = Append(outcome, "saved")
                      ELSE /\ outcome' = Append(outcome, "exchange failed")
                           /\ UNCHANGED <<tokenFile, saves>>
                   /\ AuthorizeEnds(exchanged)
    /\ UNCHANGED <<cmd, upstream, calls, sheet, clock, auth_code, error, authCalls, callbacks>>
    /\ UNCHANGED fetchVars
    /\ UNCHANGED writeVars
    /\ UNCHANGED serverVars

Next ==
    \/ \E req \in Requests : ServerRequest(req)
    \/ CliFitbit
    \/ FetchStep
    \/ AppendFitbit
    \/ CliBp
    \/ CliDiet
    \/ AppendRow
    \/ AuthorizeStart
    \/ \E req \in CallbackRequests : CallbackArrives(req)
    \/ CallbackTimeout
    \/ AuthorizeFinish

Spec == Init /\ [][Next]_vars

(***************************************************************************)
(* One fetcher called on its own, over the bodies its endpoint may hold.   *)
(***************************************************************************)
\* entries of one sleep list
MaxSleeps == 3

ShortNap ==
    [isMainSleep |-> Bool(FALSE), startTime |-> Str("2024-01-05T12:00:00.000"),
     duration |-> Num(18000)]

Unflagged == [duration |-> Num(54000), efficiency |-> Num(70), endTime |-> Str("2024-01-05T09:00:00.000")]

LongNight ==
    [isMainSleep |-> Bool(TRUE), startTime |-> Str("2024-01-04T22:00:00.000"),
     endTime |-> Str("2024-01-05T06:00:00.000"), duration |-> Num(28800000),
     efficiency |-> Num(97),
     levels |-> [summary |-> [deep |-> [minutes |-> Num(90)], rem |-> [minutes |-> Num(110)]]]]

SleepEntries ==
    {EmptyDict, NapEntry, NightEntry, ShortNap, Unflagged, LongNight, [isMainSleep |-> Bool(TRUE)]}

SleepBodies ==
    {EmptyDict, [sleep |-> List(<<>>)]}
    \cup {[sleep |-> List(entries)] : entries \in SeqsUpTo(SleepEntries, MaxSleeps)}

MaxScores == 2

\* what an entry's vo2Max may hold: scalars, ranges, partial ranges, null
Vo2Values ==
    {Num(0), Num(42), Flt(0), Flt(42500), Str(""), Str("45-49"), None,
     [low |-> Num(40), high |-> Num(44)], [low |-> Flt(40500), high |-> Flt(44000)],
     [low |-> Num(0), high |-> Num(0)], [low |-> Num(40)], EmptyDict}

CardioEntries ==
    {[dateTime |-> Str("2024-01-06"), value |-> [vo2Max |-> v]] : v \in Vo2Values}
    \cup {EmptyDict, [dateTime |-> Str("2024-01-06")], [value |-> EmptyDict], [value |-> None]}

CardioBodies ==
    {EmptyDict, [cardioScore |-> List(<<>>)]}
    \cup {[cardioScore |-> List(entries)] : entries \in SeqsUpTo(CardioEntries, MaxScores)}

\* the bodies the endpoint of fetcher fn may hold
BodiesOf(fn) ==
    CASE fn = "get_sleep" -> SleepBodies
      [] fn = "get_vo2_max" -> CardioBodies

InitCall ==
    /\ cmd \in {[name |-> "call", fn |-> fn] : fn \in {"get_sleep", "get_vo2_max"}}
    /\ tokenFile = Token("old")
    /\ upstream \in {[FullBodies EXCEPT ![cmd.fn] = body] : body \in BodiesOf(cmd.fn)}
    /\ Fresh

\* fn(session, d) for the one fetcher fn
CallOne ==
    /\ running /\ cmd.name = "call" /\ pc = "start"
    /\ \E resp \in Responses(cmd.fn), d \in {today, [year |-> 2024, month |-> 1, day |-> 5]} :
          LET r == CallFetcher(cmd.fn, resp, d)
          IN  /\ target' = d
              /\ calls' = <<cmd.fn>>
              /\ row' = MergeRow(EmptyDict, r)
              /\ warnings' = IF r.ok THEN <<>> ELSE <<cmd.fn>>
              /\ answered' = <<resp = StoredBody(cmd.fn)>>
              /\ pc' = "called"
    /\ UNCHANGED <<cmd, running, exit_code, tokenFile, upstream, idx, sheet, clock>>
    /\ UNCHANGED writeVars
    /\ UNCHANGED serverVars
    /\ UNCHANGED authVars

NextCall == CallOne

SpecCall == InitCall /\ [][NextCall]_vars

(***************************************************************************)
(* Properties.                                                             *)
(***************************************************************************)
Range(seq) == {seq[i] : i \in 1..Len(seq)}
Count(seq, x) == Cardinality({i \in 1..Len(seq) : seq[i] = x})

\* the server has finished handling `request`
Handled == cmd.name = "server" /\ handled > 0 /\ pc \in {"idle", "exited"}

\* the request's key parameter is missing, empty, or not the configured key
KeyRejected(req) ==
    \/ \A i \in 1..Len(req.query) : req.query[i][1] = "key" => req.query[i][2].text = ""
    \/ \E i \in 1..Len(req.query) :
          /\ req.query[i][1] = "key" /\ req.query[i][2].text # ""
          /\ \A j \in 1..(i - 1) : req.query[j][1] = "key" => req.query[j][2].text = ""
          /\ req.query[i][2] # API_KEY

\* C1: a GET /fetch whose key is missing, empty or wrong is answered 403, and
\* neither fetch_all nor append_fitbit is called, whatever the date parameter
C1_WrongKeyIs403 ==
    (Handled /\ request.path = "/fetch" /\ KeyRejected(request))
        => /\ responses[handled].status = 403
           /\ "fetch_all" \notin Range(calls)
           /\ "append_fitbit" \notin Range(calls)

\* C1, the part the code keeps: a rejected key never reaches fetch or write
C1_WrongKeyNoPipeline ==
    (Handled /\ request.path = "/fetch" /\ KeyRejected(request))
        => /\ responses[handled].status \in {403, 0}
           /\ calls = <<>> /\ sheet = <<>>

\* C2: on the server path a missing stored credential at get_session() is
\* answered 500 with a trace, and the listener keeps serving
C2_NoCredentialIs500 ==
    (Handled /\ "fetch_all" \in Range(calls) /\ IsNone(tokenFile))
        => /\ responses[handled] = Response(500, "trace")
           /\ running /\ pc = "idle"

\* the keys each fetcher returns
KeysOf(fn) ==
    CASE fn = "get_activity_summary" ->
            {"steps", "distance_km", "floors", "calories_total", "calories_activity"}
      [] fn = "get_azm" -> {"azm_fat_burn", "azm_cardio", "azm_peak", "azm_total"}
      [] fn = "get_sleep" ->
            {"sleep_start", "sleep_end", "sleep_duration_hrs", "sleep_efficiency",
             "sleep_deep_min", "sleep_light_min", "sleep_rem_min", "sleep_wake_min"}
      [] fn = "get_heart_rate" -> {"rhr"}
      [] fn = "get_hrv" -> {"hrv_rmssd"}
      [] fn = "get_spo2" -> {"spo2_avg", "spo2_min", "spo2_max"}
      [] fn = "get_breathing_rate" -> {"breathing_rate"}
      [] fn = "get_skin_temp" -> {"skin_temp_variation"}
      [] fn = "get_vo2_max" -> {"vo2_max"}
      [] fn = "get_exercises" -> {"exercises"}

\* C3: whichever fetchers raise, fetch_all does not raise, calls each of the ten
\* fetchers once in list order, and returns a row holding every key of the
\* fetchers that did not raise and no key of one that raised
C3_PartialFailureIsolation ==
    (pc \in {"fetch", "append_fitbit"})
        => /\ running
           /\ calls = <<"fetch_all">> \o SubSeq(fetchers, 1, idx - 1)
           /\ Range(warnings) \subseteq Range(SubSeq(fetchers, 1, idx - 1))
           /\ DOMAIN row = UNION {KeysOf(fetchers[i]) :
                                    i \in {j \in 1..(idx - 1) : fetchers[j] \notin Range(warnings)}}
           /\ (pc = "append_fitbit" => idx = Len(fetchers) + 1)

\* some fetchers raised, among them the first, and fetch_all has returned a partial row
C3_Witness ==
    /\ pc = "append_fitbit"
    /\ Len(warnings) = 3
    /\ warnings[1] = "get_activity_summary"
    /\ "exercises" \in DOMAIN row

\* the documented default of every key
DefaultRow ==
    [steps |-> Num(0), distance_km |-> Num(0), floors |-> Num(0), calories_total |-> Num(0),
     calories_activity |-> Num(0), azm_fat_burn |-> Num(0), azm_cardio |-> Num(0),
     azm_peak |-> Num(0), azm_total |-> Num(0), sleep_start |-> Str(""), sleep_end |-> Str(""),
     sleep_duration_hrs |-> Num(0), sleep_efficiency |-> Num(0), sleep_deep_min |-> Num(0),
     sleep_light_min |-> Num(0), sleep_rem_min |-> Num(0), sleep_wake_min |-> Num(0),
     rhr |-> Str(""), hrv_rmssd |-> Str(""), spo2_avg |-> Str(""), spo2_min |-> Str(""),
     spo2_max |-> Str(""), breathing_rate |-> Str(""), skin_temp_variation |-> Str(""),
     vo2_max |-> Str(""), exercises |-> Str("None")]

\* every endpoint served an empty but well-formed body
AllEmptyServed ==
    /\ upstream \in {EmptyBodies, HollowBodies}
    /\ \A i \in 1..Len(answered) : answered[i]

\* C4: when every endpoint returns an empty but well-formed body, no fetcher
\* raises and the row holds each of the 26 keys with its documented default
C4_EmptyBodiesGiveDefaults ==
    (pc \in {"fetch", "append_fitbit"} /\ AllEmptyServed)
        => /\ warnings = <<>>
           /\ \A k \in DOMAIN row : row[k] = DefaultRow[k]
           /\ (pc = "append_fitbit" => DOMAIN row = DOMAIN DefaultRow /\ Cardinality(DOMAIN row) = 26)

C4_Witness ==
    /\ pc = "append_fitbit" /\ AllEmptyServed
    /\ upstream = HollowBodies
    /\ target # today

\* a bp argument in the documented format systolic/diastolic[/pulse]
WellFormedReading(raw) ==
    LET parts == Split(raw, "/")
    IN  /\ Len(parts) \in {2, 3}
        /\ \A i \in 1..Len(parts) : AllDigits(parts[i])

\* C5: a bp command with a malformed argument at any position exits non-zero
\* and never calls append_bp, so no row of that call is appended
C5_MalformedBpWritesNothing ==
    (/\ cmd.name = "bp" /\ pc # "start"
     /\ \E i \in 1..Len(cmd.readings) : ~WellFormedReading(cmd.readings[i]))
        => /\ ~running /\ exit_code # 0
           /\ "append_bp" \notin Range(calls)
           /\ sheet = <<>>

\* C5, the part the code keeps: an argument with fewer than two fields, or with
\* a field among the first three that is no integer, stops the command before
\* any write
C5_RejectedBpWritesNothing ==
    (/\ cmd.name = "bp" /\ pc # "start"
     /\ \E i \in 1..Len(cmd.readings) :
           LET parts == Split(cmd.readings[i], "/")
           IN  \/ Len(parts) < 2
               \/ \E j \in 1..Len(parts) : j <= 3 /\ ~AllDigits(parts[j]))
        => /\ ~running /\ exit_code = 1
           /\ calls = <<>> /\ sheet = <<>>

\* the k-th field of the i-th bp argument, as a number
ReadingField(i, k) == Num(DigitsVal(Split(cmd.readings[i], "/")[k]))

\* C6: append_bp with N readings and no write failure issues N row-appends to
\* the Blood Pressure tab in input order, all with the one timestamp taken at
\* the start of the call, the k-th with sequence index k
C6_BpRowsStampedOnce ==
    (cmd.name = "bp" /\ pc = "exited" /\ exit_code = 0)
        => /\ Len(sheet) = Len(cmd.readings)
           /\ Count(calls, "append_row") = Len(cmd.readings)
           /\ \A k \in 1..Len(sheet) :
                 /\ sheet[k].tab = "Blood Pressure"
                 /\ sheet[k].row[1] = _timestamp(clock - Len(sheet))
                 /\ sheet[k].row[2] = Num(k)
                 /\ sheet[k].row[3] = ReadingField(k, 1)
                 /\ sheet[k].row[4] = ReadingField(k, 2)

C6_Witness ==
    /\ cmd.name = "bp" /\ pc = "exited" /\ exit_code = 0
    /\ Len(sheet) = 2
    /\ sheet[1].row[3] # sheet[2].row[3]

\* an append_row call of the row loop raised
AppendFailed == cmd.name \in {"bp", "diet"} /\ Len(sheet) < tried

\* C7: when the k-th row-append of append_bp or append_diet fails, the error
\* reaches the caller, rows k+1..N are never tried, the failed append is not
\* retried, and rows 1..k-1 stay in the sheet
C7_WriteFailureStopsLoop ==
    AppendFailed
        => /\ ~running /\ exit_code = 1
           /\ tried = Len(sheet) + 1
           /\ Count(calls, "append_row") = tried
           /\ \A i \in 1..Len(sheet) : sheet[i] = [tab |-> tab, row |-> rows[i]]

C7_Witness ==
    /\ AppendFailed /\ cmd.name = "diet"
    /\ tried = 2 /\ Len(rows) = 3 /\ Len(sheet) = 1

\* the first non-blank value of the request's date parameter, None when there is none
RawDate(req) == QueryParam(req.query, "date")

\* the pipeline of the handled request ran to the end of append_fitbit
PipelineCompleted ==
    /\ calls = <<"fetch_all">> \o fetchers \o <<"append_fitbit", "append_row">>
    /\ Len(sheet) = 1 /\ sheet[1].tab = "Fitbit"

\* C8: every GET gets exactly one response: 404 off /fetch, else 403 on a
\* missing or wrong key, else 400 on a date that is no ISO date with no fetch or
\* write, else 500 with a trace when fetch or append raised, else 200 with the
\* summary, sent only after fetch_all and append_fitbit completed
C8_OneResponseInOrder ==
    Handled
        => /\ Len(responses) = handled
           /\ LET status == responses[handled].status
              IN  IF request.path # "/fetch" THEN status = 404
                  ELSE IF KeyRejected(request) THEN status = 403
                  ELSE IF ~IsNone(RawDate(request)) /\ ~fromisoformat(RawDate(request).text).ok
                  THEN status = 400 /\ calls = <<>> /\ sheet = <<>>
                  ELSE IF PipelineCompleted THEN responses[handled] = Response(200, "summary")
                  ELSE responses[handled] = Response(500, "trace")

\* the code of a callback request, None when it carries none
CodeOf(req) == QueryParam(req.query, "code")

\* C9: authorize() handles at most one callback request and ends in one of
\* three ways decided by that call's callback alone: a code is exchanged and,
\* the exchange done, the token is saved; a callback without a code raises the
\* OAuth error; no callback raises the timeout error; the two failures attempt
\* no exchange and write no credential file
C9_AuthorizeOutcome ==
    \A n \in 1..Len(outcome) :
        LET got == callbacks[n]
            callback == Len(got) = 1 /\ got[1].method = "GET"
        IN  /\ Len(got) <= 1
            /\ IF callback /\ ~IsNone(CodeOf(got[1]))
               THEN /\ exchanges[n] = <<CodeOf(got[1]).text>>
                    /\ outcome[n] \in {"saved", "exchange failed"}
                    /\ saves[n] = IF outcome[n] = "saved" THEN 1 ELSE 0
                    /\ (outcome[n] = "saved" /\ n = authCalls)
                           => tokenFile = Token(CodeOf(got[1]).text)
               ELSE /\ outcome[n] = IF callback THEN "OAuth error" ELSE "timed out"
                    /\ exchanges[n] = <<>>
                    /\ saves[n] = 0

\* a second authorize() saved the token of its own code after a first one
\* that was denied
C9_Witness ==
    /\ Len(outcome) = 2
    /\ outcome[1] = "OAuth error" /\ outcome[2] = "saved"
    /\ tokenFile = Token("c2")

\* get_sleep was called alone and the provider served its sleep list
SleepCalled == cmd.name = "call" /\ cmd.fn = "get_sleep" /\ pc = "called" /\ answered[1]

\* the entry the claim names: the first one flagged as main sleep, the first
\* entry when none is flagged, 0 for an empty list
NamedSleep(sleeps) ==
    LET flagged == {i \in 1..Len(sleeps) : Get(sleeps[i], "isMainSleep", Bool(FALSE)) = Bool(TRUE)}
    IN  IF flagged # {} THEN CHOOSE i \in flagged : \A j \in flagged : i <= j
        ELSE IF Len(sleeps) > 0 THEN 1 ELSE 0

\* C10: get_sleep reports the first entry flagged as main sleep, else the first
\* entry, else the defaults; sleep_duration_hrs is that entry's duration in ms
\* divided by 3,600,000 and rounded to 2 decimals
C10_MainSleepChosen ==
    SleepCalled
        => LET sleeps == Get(upstream["get_sleep"], "sleep", List(<<>>)).list
               n == NamedSleep(sleeps)
               e == sleeps[n]
               stages == Get(Get(e, "levels", EmptyDict), "summary", EmptyDict)
               hundredths == Milli(row.sleep_duration_hrs) \div 10
               ms == Get(e, "duration", Num(0)).num
               StageMinutes(stage) == Get(Get(stages, stage, EmptyDict), "minutes", Num(0))
           IN  /\ warnings = <<>>
               /\ DOMAIN row = KeysOf("get_sleep")
               /\ IF n = 0
                  THEN \A k \in DOMAIN row : row[k] = DefaultRow[k]
                  ELSE /\ row.sleep_start = Get(e, "startTime", Str(""))
                       /\ row.sleep_end = Get(e, "endTime", Str(""))
                       /\ Milli(row.sleep_duration_hrs) = 10 * hundredths
                       /\ hundredths * 36000 - ms <= 18000
                       /\ ms - hundredths * 36000 <= 18000
                       /\ row.sleep_efficiency = Get(e, "efficiency", Num(0))
                       /\ row.sleep_deep_min = StageMinutes("deep")
                       /\ row.sleep_light_min = StageMinutes("light")
                       /\ row.sleep_rem_min = StageMinutes("rem")
                       /\ row.sleep_wake_min = StageMinutes("wake")

\* a nap listed before two flagged nights: the first flagged night is reported
C10_Witness ==
    /\ SleepCalled
    /\ Get(upstream["get_sleep"], "sleep", List(<<>>)).list = <<NapEntry, LongNight, NightEntry>>
    /\ row.sleep_duration_hrs = Flt(8000)

\* get_vo2_max was called and the provider answered with the stored body
Vo2Called == cmd.name = "call" /\ cmd.fn = "get_vo2_max" /\ pc = "called" /\ answered[1]

\* the entries of the stored cardio-score body
CardioScores == Get(upstream["get_vo2_max"], "cardioScore", List(<<>>)).list

\* the vo2Max of the first entry, None when the entry holds none
FirstVo2Max == Get(Get(CardioScores[1], "value", EmptyDict), "vo2Max", None)

\* the rendering the claim names, with Scalar(v) the rendering of a scalar v;
\* an entry whose value is null and a range lacking low or high are left open
Vo2MaxRenderedWith(Scalar(_)) ==
    Vo2Called
        => IF CardioScores = <<>> THEN warnings = <<>> /\ row = [vo2_max |-> Str("")]
           ELSE IF IsNone(Get(CardioScores[1], "value", EmptyDict)) THEN TRUE
           ELSE LET vo2 == FirstVo2Max
                IN  /\ warnings = <<>>
                    /\ DOMAIN row = {"vo2_max"}
                    /\ IF IsNone(vo2) THEN row.vo2_max = Str("")
                       ELSE IF IsDict(vo2)
                       THEN {"low", "high"} \subseteq DOMAIN vo2
                                => row.vo2_max = Str(Format(vo2.low) \o "-" \o Format(vo2.high))
                       ELSE row.vo2_max = Scalar(vo2)

\* C11: get_vo2_max renders the vo2Max of the first cardio-score entry: a range
\* with low and high as "<low>-<high>", a scalar unchanged (0 included), an
\* absent value or an empty cardioScore list as ""
C11_Vo2MaxRendered ==
    LET Scalar(v) == v
    IN  Vo2MaxRenderedWith(Scalar)

\* C11, the part the code keeps: ranges, absent values, and every scalar that
\* is not zero; a zero is rendered as ""
C11_NonZeroVo2MaxRendered ==
    LET Scalar(v) == IF v \in {Num(0), Flt(0)} THEN Str("") ELSE v
    IN  Vo2MaxRenderedWith(Scalar)

\* a first entry whose vo2Max is the number 0, with the cell get_vo2_max gave it
C11_ZeroScore ==
    /\ Vo2Called /\ CardioScores # <<>>
    /\ FirstVo2Max = Num(0)
    /\ row = [vo2_max |-> Str("")]

\* append_fitbit returned to the command or handler that called it
FitbitAppended ==
    \/ cmd.name = "fitbit" /\ pc = "exited" /\ exit_code = 0
    \/ Handled /\ responses[handled].status = 200

\* C12: whatever fetchers failed, append_fitbit appends one row of 27 cells to
\* the Fitbit tab: the timestamp, then for each of the 26 FITBIT_COLUMNS in
\* order the mapping's value or "" when the key is missing, so no cell moves;
\* and every key a fetcher returns is one of the 26 columns
C12_FitbitRowAligned ==
    /\ Len(FITBIT_COLUMNS) = 26
    /\ cmd.name \in {"fitbit", "server"} => DOMAIN row \subseteq Range(FITBIT_COLUMNS)
    /\ FitbitAppended
          => /\ Count(calls, "append_fitbit") = 1 /\ Count(calls, "append_row") = 1
             /\ Len(sheet) = 1 /\ sheet[1].tab = "Fitbit"
             /\ LET cells == sheet[1].row
                IN  /\ Len(cells) = 27
                    /\ IsStr(cells[1]) /\ Len(cells[1].str) = 19
                    /\ \A k \in 1..26 :
                          cells[k + 1] = IF FITBIT_COLUMNS[k] \in DOMAIN row
                                         THEN row[FITBIT_COLUMNS[k]] ELSE Str("")

\* the sleep and SpO2 fetchers failed: their cells are blank and the cells
\* after them hold the later metrics in their columns
C12_Witness ==
    /\ FitbitAppended
    /\ warnings = <<"get_sleep", "get_spo2">>
    /\ \A k \in 10..17 : sheet[1].row[k + 1] = Str("")
    /\ sheet[1].row[2] = row.steps
    /\ sheet[1].row[19] = row.rhr
    /\ sheet[1].row[27] = row.exercises /\ row.exercises # Str("None")

\* every fetcher failed and the row of 26 blank cells was appended
C12_AllFailed ==
    /\ FitbitAppended
    /\ Len(warnings) = 10
    /\ \A k \in 2..27 : sheet[1].row[k] = Str("")

====
